---- MODULE Spec2Model ----
(***************************************************************************)
(* Inventory management: KiCad BOM import, part identity, stock ledger and *)
(* the build / shopping-list operations of app_cli.py and app_streamlit.py.*)
(*                                                                         *)
(* Text is modelled as a tuple of one-character strings, so that the       *)
(* normalisation functions are computed character by character as the      *)
(* Python code computes them.  The SQLite store is modelled table by       *)
(* table: a table is the set of its rows, a row is a record.               *)
(***************************************************************************)
EXTENDS Integers, Sequences, FiniteSets, TLC

(***************************************************************************)
(* Characters                                                              *)
(***************************************************************************)
Uppers == <<"A","B","C","D","E","F","G","H","I","J","K","L","M",
            "N","O","P","Q","R","S","T","U","V","W","X","Y","Z","Ω">>
Lowers == <<"a","b","c","d","e","f","g","h","i","j","k","l","m",
            "n","o","p","q","r","s","t","u","v","w","x","y","z","ω">>
Digits == <<"0","1","2","3","4","5","6","7","8","9">>

Range(s) == { s[i] : i \in DOMAIN s }

IndexIn(s, c) == CHOOSE i \in DOMAIN s : s[i] = c

UpperSet == Range(Uppers)
LowerSet == Range(Lowers)
DigitSet == Range(Digits)
ToLower  == [ c \in UpperSet |-> Lowers[IndexIn(Uppers, c)] ]
ToUpper  == [ c \in LowerSet |-> Uppers[IndexIn(Lowers, c)] ]

\* str.lower() / str.upper() on one character
LowerChar(c) == IF c \in UpperSet THEN ToLower[c] ELSE c
UpperChar(c) == IF c \in LowerSet THEN ToUpper[c] ELSE c

\* str.isalpha() / str.isspace() on one character
IsAlpha(c) == c \in UpperSet \cup LowerSet
IsSpace(c) == c \in {" ", "\t"}

\* str.lower() on a string
Lower(s) == [ i \in DOMAIN s |-> LowerChar(s[i]) ]

\* str.strip(): drop leading and trailing whitespace
RECURSIVE LStrip(_)
LStrip(s) == IF s # <<>> /\ IsSpace(Head(s)) THEN LStrip(Tail(s)) ELSE s
RECURSIVE RStrip(_)
RStrip(s) == IF s # <<>> /\ IsSpace(s[Len(s)])
             THEN RStrip(SubSeq(s, 1, Len(s) - 1)) ELSE s
Strip(s) == RStrip(LStrip(s))

\* "needle in hay" on strings
Contains(hay, needle) ==
    \E i \in 1..(Len(hay) - Len(needle) + 1) :
        SubSeq(hay, i, i + Len(needle) - 1) = needle

\* str.replace(old, new), left to right, non-overlapping
RECURSIVE Replace(_, _, _)
Replace(s, old, new) ==
    IF Len(s) < Len(old) THEN s
    ELSE IF SubSeq(s, 1, Len(old)) = old
         THEN new \o Replace(SubSeq(s, Len(old) + 1, Len(s)), old, new)
         ELSE <<Head(s)>> \o Replace(Tail(s), old, new)

(***************************************************************************)
(* Normalizer                                                              *)
(***************************************************************************)
\* " ".join(s.strip().split()): the words of s joined by single spaces
RECURSIVE JoinWords(_)
JoinWords(s) ==
    LET t == LStrip(s) IN
    IF t = <<>> THEN <<>>
    ELSE LET n == IF \E i \in DOMAIN t : IsSpace(t[i])
                  THEN (CHOOSE i \in DOMAIN t :
                           IsSpace(t[i]) /\ \A j \in 1..(i-1) : ~IsSpace(t[j])) - 1
                  ELSE Len(t)
             rest == JoinWords(SubSeq(t, n + 1, Len(t)))
         IN SubSeq(t, 1, n) \o (IF rest = <<>> THEN <<>> ELSE <<" ">> \o rest)

norm_space(s) == JoinWords(s)

simple_chars == DigitSet \cup
    {".", "k", "K", "m", "M", "u", "U", "n", "N", "p", "P", "f", "F",
     "r", "R", "Ω", "o", "h", "O", "H", "%"}

norm_value(s) ==
    LET t == norm_space(s) IN
    IF t = <<>> THEN t
    ELSE IF \A i \in DOMAIN t : t[i] \in simple_chars
         THEN Replace(Lower(t), <<"o","h","m">>, <<"Ω">>)
         ELSE t

norm_key(s) == Lower(Strip(s))

\* the text before the first comma
BeforeComma(r) ==
    IF \E i \in DOMAIN r : r[i] = ","
    THEN SubSeq(r, 1, (CHOOSE i \in DOMAIN r :
                          r[i] = "," /\ \A j \in 1..(i-1) : r[j] # ",") - 1)
    ELSE r

\* the maximal leading run of letters, upper-cased
RECURSIVE LeadingLetters(_)
LeadingLetters(s) ==
    IF s # <<>> /\ IsAlpha(Head(s))
    THEN <<UpperChar(Head(s))>> \o LeadingLetters(Tail(s))
    ELSE <<>>

ref_prefix(reference) ==
    LET r == Strip(reference) IN
    IF r = <<>> THEN <<"X">>
    ELSE LET letters == LeadingLetters(Strip(BeforeComma(r))) IN
         IF letters = <<>> THEN <<"X">> ELSE letters

cap_subtype_from_footprint(footprint) ==
    LET fp == Lower(footprint) IN
    IF Contains(fp, <<"f","i","l","m","_","b","o","x","_","r","e","c","t">>)
    THEN <<"f","i","l","m">>
    ELSE IF Contains(fp, <<"e","l","e","c","t","r","o","_","r","a","d","i","a","l">>)
         THEN <<"e","l","e","c","t","r","o","l","y","t","i","c">>
         ELSE <<"u","n","k","n","o","w","n">>

make_part_key(prefix, value, subtype) ==
    prefix \o <<"|">> \o value \o <<"|">> \o subtype

\* int(float(qty_raw)) for an optionally signed decimal literal with at most
\* one point; any other text raises ValueError (ok = FALSE).  The value is
\* truncated toward zero.
DigitValue == [ c \in DigitSet |-> IndexIn(Digits, c) - 1 ]
DigitVal(c) == DigitValue[c]

RECURSIVE DecVal(_)
DecVal(ds) == IF ds = <<>> THEN 0
              ELSE 10 * DecVal(SubSeq(ds, 1, Len(ds) - 1)) + DigitVal(ds[Len(ds)])

IntOfFloat(s) ==
    LET signed == s # <<>> /\ Head(s) \in {"-", "+"}
        body   == IF signed THEN Tail(s) ELSE s
        dots   == { i \in DOMAIN body : body[i] = "." }
        dot    == IF dots = {} THEN Len(body) + 1 ELSE CHOOSE i \in dots : TRUE
        whole  == SubSeq(body, 1, dot - 1)
        frac   == SubSeq(body, dot + 1, Len(body))
        wellformed ==
            /\ Cardinality(dots) <= 1
            /\ \A i \in DOMAIN whole : whole[i] \in DigitSet
            /\ \A i \in DOMAIN frac : frac[i] \in DigitSet
            /\ Len(whole) + Len(frac) >= 1
    IN IF wellformed
       THEN [ok |-> TRUE,
             val |-> IF Head(s) = "-" THEN 0 - DecVal(whole) ELSE DecVal(whole)]
       ELSE [ok |-> FALSE, val |-> 0]

(***************************************************************************)
(* Store: the four tables of SCHEMA_SQL.  db is the record of the tables.  *)
(***************************************************************************)
Max(S) == CHOOSE x \in S : \A y \in S : y <= x

\* INTEGER PRIMARY KEY AUTOINCREMENT: one more than the largest id in use
\* (no row of parts or projects is ever deleted)
NextId(ids) == IF ids = {} THEN 1 ELSE Max(ids) + 1

\* A transaction in progress: the working copy of the tables and whether a
\* statement has raised.  A statement after a raise is never executed.
Tx(db) == [db |-> db, raised |-> FALSE]
Raise(tx) == [tx EXCEPT !.raised = TRUE]

\* SELECT part_id FROM parts WHERE part_key=?   (exact match)
SelectPartByKey(db, pkey) == { p \in db.parts : p.part_key = pkey }

\* INSERT INTO parts(...): part_key is UNIQUE, location defaults to ''
InsertPart(tx, pkey, prefix, value, subtype, footprint) ==
    IF \E p \in tx.db.parts : p.part_key = pkey
    THEN Raise(tx)
    ELSE [tx EXCEPT !.db.parts = @ \cup
            {[part_id  |-> NextId({ p.part_id : p \in tx.db.parts }),
              part_key |-> pkey, prefix |-> prefix, value |-> value,
              subtype  |-> subtype, example_footprint |-> footprint,
              location |-> <<>>]}]

\* INSERT OR IGNORE INTO stock(part_id, on_hand, min_stock) VALUES(?,0,0)
InsertStockOrIgnore(tx, pid) ==
    IF \E s \in tx.db.stock : s.part_id = pid
    THEN tx
    ELSE [tx EXCEPT !.db.stock = @ \cup
            {[part_id |-> pid, on_hand |-> 0, min_stock |-> 0]}]

\* get_or_create_part: the transaction after the call and the part_id returned
get_or_create_part_NoStock(tx, prefix, value, subtype, footprint) ==
    LET pkey == make_part_key(prefix, value, subtype)
        row  == SelectPartByKey(tx.db, pkey)
    IN IF row # {}
       THEN [tx |-> tx, pid |-> (CHOOSE p \in row : TRUE).part_id]
       ELSE LET ins == InsertPart(tx, pkey, prefix, value, subtype, footprint)
                pid == NextId({ p.part_id : p \in tx.db.parts })
            IN [tx |-> ins, pid |-> pid]

\* get_or_create_part with the stock row written over for a part that exists
get_or_create_part_ResetStock(tx, prefix, value, subtype, footprint) ==
    LET pkey == make_part_key(prefix, value, subtype)
        row  == SelectPartByKey(tx.db, pkey)
    IN IF row # {}
       THEN LET pid == (CHOOSE p \in row : TRUE).part_id
            IN [tx |-> [tx EXCEPT !.db.stock =
                          { s \in @ : s.part_id # pid } \cup
                          {[part_id |-> pid, on_hand |-> 0, min_stock |-> 0]}],
                pid |-> pid]
       ELSE LET ins == InsertPart(tx, pkey, prefix, value, subtype, footprint)
                pid == NextId({ p.part_id : p \in tx.db.parts })
            IN [tx |-> IF ins.raised THEN ins ELSE InsertStockOrIgnore(ins, pid),
                pid |-> pid]

get_or_create_part_NoLookup(tx, prefix, value, subtype, footprint) ==
    LET pkey == make_part_key(prefix, value, subtype)
        ins  == InsertPart(tx, pkey, prefix, value, subtype, footprint)
        pid  == NextId({ p.part_id : p \in tx.db.parts })
    IN [tx |-> IF ins.raised THEN ins ELSE InsertStockOrIgnore(ins, pid),
        pid |-> pid]

get_or_create_part(tx, prefix, value, subtype, footprint) ==
    LET pkey == make_part_key(prefix, value, subtype)
        row  == SelectPartByKey(tx.db, pkey)
    IN IF row # {}
       THEN [tx |-> tx, pid |-> (CHOOSE p \in row : TRUE).part_id]
       ELSE LET ins == InsertPart(tx, pkey, prefix, value, subtype, footprint)
                pid == NextId({ p.part_id : p \in tx.db.parts })
            IN [tx |-> IF ins.raised THEN ins ELSE InsertStockOrIgnore(ins, pid),
                pid |-> pid]

(***************************************************************************)
(* BOM reading and import                                                  *)
(***************************************************************************)
RequiredColumns == {"Reference", "Value", "Footprint", "Qty", "DNP"}

NotDnp == { <<>>, <<"0">>, <<"f","a","l","s","e">>, <<"n","o">>, <<"n">> }

\* One CSV row of read_kicad_bom: the normalised (ref, val, fp, qty) tuple,
\* or no tuple when the row is filtered out
SurvivingRow(row) ==
    LET dnp     == Strip(row.DNP)
        qty_raw == Strip(row.Qty)
        qty     == IntOfFloat(qty_raw)
    IN IF dnp # <<>> /\ Lower(dnp) \notin NotDnp THEN <<>>
       ELSE IF qty_raw = <<>> THEN <<>>
       ELSE IF ~qty.ok THEN <<>>
       ELSE IF qty.val <= 0 THEN <<>>
       ELSE << [ref |-> norm_space(row.Reference),
                val |-> norm_value(row.Value),
                fp  |-> norm_space(row.Footprint),
                qty |-> qty.val] >>

RECURSIVE SurvivingRows(_)
SurvivingRows(rows) ==
    IF rows = <<>> THEN <<>>
    ELSE SurvivingRow(Head(rows)) \o SurvivingRows(Tail(rows))

\* read_kicad_bom: raises ValueError when a required column is missing
read_kicad_bom(csv) ==
    IF RequiredColumns \ csv.fieldnames # {}
    THEN [raised |-> TRUE, rows |-> <<>>]
    ELSE [raised |-> FALSE, rows |-> SurvivingRows(csv.rows)]

\* INSERT OR REPLACE INTO projects: the row of an existing name is deleted and
\* a new row, with a new project_id, takes its place
UpsertProject_Replace(tx, name, source_csv, imported_at) ==
    [tx EXCEPT !.db.projects = { p \in @ : p.name # name } \cup
        {[project_id  |-> NextId({ p.project_id : p \in tx.db.projects }),
          name |-> name, source_csv |-> source_csv,
          imported_at |-> imported_at]}]

\* a plain INSERT INTO projects on a table without UNIQUE(name)
UpsertProject_Insert(tx, name, source_csv, imported_at) ==
    [tx EXCEPT !.db.projects = @ \cup
        {[project_id  |-> NextId({ p.project_id : p \in tx.db.projects }),
          name |-> name, source_csv |-> source_csv,
          imported_at |-> imported_at]}]

\* INSERT INTO projects ... ON CONFLICT(name) DO UPDATE SET source_csv, imported_at
UpsertProject(tx, name, source_csv, imported_at) ==
    IF \E p \in tx.db.projects : p.name = name
    THEN [tx EXCEPT !.db.projects =
            { IF p.name = name
              THEN [p EXCEPT !.source_csv = source_csv, !.imported_at = imported_at]
              ELSE p : p \in @ }]
    ELSE [tx EXCEPT !.db.projects = @ \cup
            {[project_id  |-> NextId({ p.project_id : p \in tx.db.projects }),
              name |-> name, source_csv |-> source_csv,
              imported_at |-> imported_at]}]

\* SELECT project_id FROM projects WHERE name=?
SelectProjectId(db, name) ==
    (CHOOSE p \in db.projects : p.name = name).project_id

DeleteBomItems_Skip(tx, proj_id) == tx

\* DELETE FROM bom_items WHERE project_id=?
DeleteBomItems(tx, proj_id) ==
    [tx EXCEPT !.db.bom_items = { b \in @ : b.project_id # proj_id }]

\* INSERT INTO bom_items(project_id, part_id, qty_per): PRIMARY KEY(project_id, part_id)
InsertBomItem(tx, proj_id, pid, qty) ==
    IF \E b \in tx.db.bom_items : b.project_id = proj_id /\ b.part_id = pid
    THEN Raise(tx)
    ELSE [tx EXCEPT !.db.bom_items = @ \cup
            {[project_id |-> proj_id, part_id |-> pid, qty_per |-> qty]}]

\* The loop body of import_bom for one surviving row
ImportRow(tx, proj_id, r) ==
    LET prefix  == ref_prefix(r.ref)
        subtype == IF prefix = <<"C">> THEN cap_subtype_from_footprint(r.fp) ELSE <<>>
        got     == get_or_create_part(tx, prefix, r.val, subtype, r.fp)
    IN IF got.tx.raised THEN got.tx
       ELSE InsertBomItem(got.tx, proj_id, got.pid, r.qty)

RECURSIVE ImportRows(_, _, _)
ImportRows(tx, proj_id, rows) ==
    IF tx.raised \/ rows = <<>> THEN tx
    ELSE ImportRows(ImportRow(tx, proj_id, Head(rows)), proj_id, Tail(rows))

\* "with con:": commit when the block ends normally, roll back when it raises
WithCon_NoRollback(db, tx) == tx.db

WithCon(db, tx) == IF tx.raised THEN db ELSE tx.db

\* import_bom / import_bom_into_db: the store after the call, and whether the
\* call raised (ValueError from the reader, IntegrityError from a statement)
import_bom(db, project, source_csv, csv, now) ==
    LET bom == read_kicad_bom(csv) IN
    IF bom.raised THEN [db |-> db, err |-> "ValueError"]
    ELSE LET t1      == UpsertProject(Tx(db), project, source_csv, now)
             proj_id == SelectProjectId(t1.db, project)
             t2      == DeleteBomItems(t1, proj_id)
             t3      == ImportRows(t2, proj_id, bom.rows)
         IN [db |-> WithCon(db, t3),
             err |-> IF t3.raised THEN "IntegrityError" ELSE ""]

(***************************************************************************)
(* SQL helpers used by the queries                                         *)
(***************************************************************************)
\* SQLite's LOWER(): folds the ASCII letters only
SqlLowerChar(c) == IF c \in UpperSet /\ c # "Ω" THEN ToLower[c] ELSE c
SqlLower(s) == [ i \in DOMAIN s |-> SqlLowerChar(s[i]) ]

\* The characters of the model in code-point order (BINARY collation)
CodeOrder == <<"\t", " ", "%", "+", ",", "-", ".">> \o Digits \o <<":">> \o
             SubSeq(Uppers, 1, 26) \o <<"_">> \o SubSeq(Lowers, 1, 26) \o
             <<"|", "Ω", "ω">>

CodeRank == [ c \in Range(CodeOrder) |-> IndexIn(CodeOrder, c) ]

RECURSIVE StrLess(_, _)
StrLess(a, b) ==
    IF b = <<>> THEN FALSE
    ELSE IF a = <<>> THEN TRUE
    ELSE IF Head(a) = Head(b) THEN StrLess(Tail(a), Tail(b))
    ELSE CodeRank[Head(a)] < CodeRank[Head(b)]

\* ORDER BY p.prefix, p.value, p.subtype
OrderLess(x, y) ==
    \/ StrLess(x.prefix, y.prefix)
    \/ x.prefix = y.prefix /\ StrLess(x.value, y.value)
    \/ x.prefix = y.prefix /\ x.value = y.value /\ StrLess(x.subtype, y.subtype)

RECURSIVE OrderBy(_)
OrderBy(S) ==
    IF S = {} THEN <<>>
    ELSE LET m == CHOOSE x \in S : \A y \in S : ~OrderLess(y, x)
         IN <<m>> \o OrderBy(S \ {m})

\* FROM bom_items b JOIN parts p ON p.part_id = b.part_id
\*                  JOIN stock s ON s.part_id = p.part_id
\* WHERE b.project_id = ? ORDER BY p.prefix, p.value, p.subtype
SelectBomItems(db, proj_id) ==
    OrderBy({ [part_id  |-> t[2].part_id, part_key |-> t[2].part_key,
               prefix   |-> t[2].prefix,  value    |-> t[2].value,
               subtype  |-> t[2].subtype, qty_per  |-> t[1].qty_per,
               on_hand  |-> t[3].on_hand]
              : t \in { u \in db.bom_items \X db.parts \X db.stock :
                          /\ u[1].project_id = proj_id
                          /\ u[2].part_id = u[1].part_id
                          /\ u[3].part_id = u[2].part_id } })

(***************************************************************************)
(* Build planner and shopping list                                         *)
(***************************************************************************)
\* The pre-check pass of build: (part_id, need) for every item
RECURSIVE Deductions(_, _)
Deductions(items, build_qty) ==
    IF items = <<>> THEN <<>>
    ELSE << <<Head(items).part_id, Head(items).qty_per * build_qty>> >>
         \o Deductions(Tail(items), build_qty)

ShortageRow(it, build_qty) ==
    LET need     == it.qty_per * build_qty
        have     == it.on_hand
        new_have == have - need
    IN [part_key |-> it.part_key, value |-> it.value, subtype |-> it.subtype,
        needed |-> need, on_hand |-> have, short_by |-> 0 - new_have]

\* the shortage rows, for the items whose new_have is negative
RECURSIVE Shortages(_, _)
Shortages(items, build_qty) ==
    IF items = <<>> THEN <<>>
    ELSE (IF Head(items).on_hand - Head(items).qty_per * build_qty < 0
          THEN << ShortageRow(Head(items), build_qty) >> ELSE <<>>)
         \o Shortages(Tail(items), build_qty)

\* UPDATE stock SET on_hand = on_hand - ? WHERE part_id=?
UpdateOnHand(db, pid, delta) ==
    [db EXCEPT !.stock = { IF s.part_id = pid
                           THEN [s EXCEPT !.on_hand = @ + delta] ELSE s : s \in @ }]

\* a build that deducts only from the parts that have enough stock
RECURSIVE ApplyDeductions_SkipShort(_, _)
ApplyDeductions_SkipShort(db, deductions) ==
    IF deductions = <<>> THEN db
    ELSE LET pid  == Head(deductions)[1]
             need == Head(deductions)[2]
             have == (CHOOSE s \in db.stock : s.part_id = pid).on_hand
         IN ApplyDeductions_SkipShort(
                IF have - need < 0 THEN db ELSE UpdateOnHand(db, pid, 0 - need),
                Tail(deductions))

\* "with con: for part_id, need in deductions: UPDATE ..."
RECURSIVE ApplyDeductions(_, _)
ApplyDeductions(db, deductions) ==
    IF deductions = <<>> THEN db
    ELSE ApplyDeductions(UpdateOnHand(db, Head(deductions)[1], 0 - Head(deductions)[2]),
                         Tail(deductions))

\* A call and what it reports to its caller: the handler, the project, the
\* quantity and the force flag it was called with, and its outcome
NoResult == [op |-> "none", err |-> "", project |-> <<>>, qty |-> 0,
             force |-> FALSE, deducted |-> FALSE, shortages |-> <<>>,
             rows |-> <<>>, applied |-> 0, skipped |-> <<>>,
             csv |-> "", again |-> FALSE, part_key |-> <<>>, location |-> <<>>]

\* The decision of build: abort when there are shortages and force is unset
Blocked_Never(shortages, force) == FALSE

Blocked(shortages, force) == shortages # <<>> /\ ~force

\* build_project (Streamlit) up to its decision: the checks and the pre-check
\* pass over the BOM items read from the store.  stop: the call returns
\* without writing; deds: the pending deductions; res: the value returned.
BuildPlan(db, project, qty, force) ==
    LET name == Lower(Strip(project))
        proj == { p \in db.projects : SqlLower(p.name) = name }
        res  == [NoResult EXCEPT !.op = "build_project", !.qty = qty,
                                 !.force = force, !.project = name]
    IN IF qty <= 0
       THEN [stop |-> TRUE, deds |-> <<>>, res |-> [res EXCEPT !.err = "QtyNotPositive"]]
       ELSE IF proj = {}
       THEN [stop |-> TRUE, deds |-> <<>>, res |-> [res EXCEPT !.err = "UnknownProject"]]
       ELSE LET pr    == CHOOSE p \in proj : TRUE
                items == SelectBomItems(db, pr.project_id)
                short == Shortages(items, qty)
                out   == [res EXCEPT !.project = pr.name, !.shortages = short]
            IN IF Blocked(short, force)
               THEN [stop |-> TRUE, deds |-> <<>>, res |-> [out EXCEPT !.deducted = FALSE]]
               ELSE [stop |-> FALSE, deds |-> Deductions(items, qty),
                     res |-> [out EXCEPT !.deducted = TRUE]]

\* build_project: the store after the call and the value returned
build_project(db, project, qty, force) ==
    LET plan == BuildPlan(db, project, qty, force)
    IN [db  |-> IF plan.stop THEN db ELSE ApplyDeductions(db, plan.deds),
        res |-> plan.res]

\* cmd_build (command line) up to its decision: no check of the quantity,
\* exact match on the lower-cased project name, SystemExit when the project
\* has no BOM items, SystemExit(2) when blocked
CmdBuildPlan(db, project, qty, force) ==
    LET name == Lower(project)
        proj == { p \in db.projects : p.name = name }
        res  == [NoResult EXCEPT !.op = "cmd_build", !.qty = qty,
                                 !.force = force, !.project = name]
    IN IF proj = {}
       THEN [stop |-> TRUE, deds |-> <<>>, res |-> [res EXCEPT !.err = "UnknownProject"]]
       ELSE LET pr    == CHOOSE p \in proj : TRUE
                items == SelectBomItems(db, pr.project_id)
                short == Shortages(items, qty)
                out   == [res EXCEPT !.shortages = short]
            IN IF items = <<>>
               THEN [stop |-> TRUE, deds |-> <<>>, res |-> [res EXCEPT !.err = "NoBomItems"]]
               ELSE IF Blocked(short, force)
               THEN [stop |-> TRUE, deds |-> <<>>,
                     res |-> [out EXCEPT !.err = "Exit2", !.deducted = FALSE]]
               ELSE [stop |-> FALSE, deds |-> Deductions(items, qty),
                     res |-> [out EXCEPT !.deducted = TRUE]]

cmd_build(db, project, qty, force) ==
    LET plan == CmdBuildPlan(db, project, qty, force)
    IN [db  |-> IF plan.stop THEN db ELSE ApplyDeductions(db, plan.deds),
        res |-> plan.res]

Max0(n) == IF n > 0 THEN n ELSE 0

\* the shopping list without its filter: a row for every item
RECURSIVE ShopRows_All(_, _)
ShopRows_All(items, qty) ==
    IF items = <<>> THEN <<>>
    ELSE LET it   == Head(items)
             need == it.qty_per * qty
         IN << [part_key |-> it.part_key, value |-> it.value,
                subtype |-> it.subtype, needed |-> need,
                on_hand |-> it.on_hand, to_order |-> Max0(need - it.on_hand)] >>
            \o ShopRows_All(Tail(items), qty)

\* the rows of the shopping list: the items with to_order > 0
RECURSIVE ShopRows(_, _)
ShopRows(items, qty) ==
    IF items = <<>> THEN <<>>
    ELSE LET it       == Head(items)
             need     == it.qty_per * qty
             have     == it.on_hand
             to_order == Max0(need - have)
         IN (IF to_order > 0
             THEN << [part_key |-> it.part_key, value |-> it.value,
                      subtype |-> it.subtype, needed |-> need,
                      on_hand |-> have, to_order |-> to_order] >>
             ELSE <<>>) \o ShopRows(Tail(items), qty)

\* a shopping list that also books the parts out
shop_for_build_Deducting(db, project, qty) ==
    [db  |-> build_project(db, project, qty, TRUE).db,
     res |-> [build_project(db, project, qty, TRUE).res EXCEPT
                !.op = "shop_for_build", !.force = FALSE, !.deducted = FALSE,
                !.shortages = <<>>]]

\* shop_for_build (Streamlit)
shop_for_build(db, project, qty) ==
    LET name == Lower(Strip(project))
        proj == { p \in db.projects : SqlLower(p.name) = name }
        res  == [NoResult EXCEPT !.op = "shop_for_build", !.qty = qty, !.project = name]
    IN IF qty <= 0 THEN [db |-> db, res |-> [res EXCEPT !.err = "QtyNotPositive"]]
       ELSE IF proj = {} THEN [db |-> db, res |-> [res EXCEPT !.err = "UnknownProject"]]
       ELSE LET pr == CHOOSE p \in proj : TRUE
            IN [db |-> db,
                res |-> [res EXCEPT !.project = pr.name,
                           !.rows = ShopRows(SelectBomItems(db, pr.project_id), qty)]]

\* cmd_shop (command line)
cmd_shop(db, project, qty) ==
    LET name == Lower(project)
        proj == { p \in db.projects : p.name = name }
        res  == [NoResult EXCEPT !.op = "cmd_shop", !.qty = qty, !.project = name]
    IN IF proj = {} THEN [db |-> db, res |-> [res EXCEPT !.err = "UnknownProject"]]
       ELSE LET pr == CHOOSE p \in proj : TRUE
            IN [db |-> db,
                res |-> [res EXCEPT
                           !.rows = ShopRows(SelectBomItems(db, pr.project_id), qty)]]

(***************************************************************************)
(* Inventory ledger: receive and batch receive                             *)
(***************************************************************************)
\* the lookup without its WHERE clause
SelectPartsLower_Any(db, key) == db.parts

\* SELECT part_id, part_key FROM parts WHERE LOWER(part_key)=?
SelectPartsLower(db, key) == { p \in db.parts : SqlLower(p.part_key) = key }

\* fetchone() of a query without ORDER BY: the first row in the order of the
\* scan SQLite picks, the table in part_id order or the part_key index
ScanOrders == {"rowid", "index"}

FetchOne(rows, scan) ==
    IF scan = "rowid"
    THEN CHOOSE r \in rows : \A q \in rows : r.part_id <= q.part_id
    ELSE CHOOSE r \in rows : \A q \in rows : ~StrLess(q.part_key, r.part_key)

\* the UPDATE of the location without its WHERE clause
UpdateLocation_All(db, pid, loc) ==
    [db EXCEPT !.parts = { [p EXCEPT !.location = loc] : p \in @ }]

\* UPDATE parts SET location=? WHERE part_id=?
UpdateLocation(db, pid, loc) ==
    [db EXCEPT !.parts = { IF p.part_id = pid
                           THEN [p EXCEPT !.location = loc] ELSE p : p \in @ }]

\* cmd_receive (command line): the quantity is not checked, --loc is used as given
cmd_receive(db, part_key, qty, loc, scan) ==
    LET rows == SelectPartsLower(db, norm_key(part_key))
        res  == [NoResult EXCEPT !.op = "cmd_receive", !.part_key = part_key,
                                 !.qty = qty, !.location = loc]
    IN IF rows = {} THEN [db |-> db, res |-> [res EXCEPT !.err = "UnknownPart"]]
       ELSE LET pid == FetchOne(rows, scan).part_id
                d1  == UpdateOnHand(db, pid, qty)
                d2  == IF loc # <<>> THEN UpdateLocation(d1, pid, loc) ELSE d1
            IN [db |-> d2, res |-> [res EXCEPT !.applied = 1]]

\* receive_one (Streamlit)
receive_one(db, part_key, qty, location, scan) ==
    LET rows == SelectPartsLower(db, Lower(Strip(part_key)))
        res  == [NoResult EXCEPT !.op = "receive_one", !.part_key = part_key,
                                 !.qty = qty, !.location = location]
    IN IF qty <= 0 THEN [db |-> db, res |-> [res EXCEPT !.err = "QtyNotPositive"]]
       ELSE IF rows = {} THEN [db |-> db, res |-> [res EXCEPT !.err = "UnknownPart"]]
       ELSE LET pid == FetchOne(rows, scan).part_id
                d1  == UpdateOnHand(db, pid, qty)
                d2  == IF Strip(location) # <<>>
                       THEN UpdateLocation(d1, pid, Strip(location)) ELSE d1
            IN [db |-> d2, res |-> [res EXCEPT !.applied = 1]]

\* int(text): optional sign and decimal digits, surrounding blanks allowed;
\* any other text raises ValueError (ok = FALSE)
IntOfStr(text) ==
    LET s      == Strip(text)
        signed == s # <<>> /\ Head(s) \in {"-", "+"}
        body   == IF signed THEN Tail(s) ELSE s
    IN IF body # <<>> /\ \A i \in DOMAIN body : body[i] \in DigitSet
       THEN [ok |-> TRUE, val |-> IF Head(s) = "-" THEN 0 - DecVal(body) ELSE DecVal(body)]
       ELSE [ok |-> FALSE, val |-> 0]

\* cmd_receive_csv, the rows of the transaction: every row with a known key
\* is applied whatever the sign of its quantity
RECURSIVE CliBatchRows(_, _, _)
CliBatchRows(db, rows, scan) ==
    IF rows = <<>> THEN db
    ELSE LET r     == Head(rows)
             found == SelectPartsLower(db, norm_key(Strip(r.part_key)))
             loc   == Strip(r.location)
         IN IF found = {} THEN CliBatchRows(db, Tail(rows), scan)
            ELSE LET pid == FetchOne(found, scan).part_id
                     d1  == UpdateOnHand(db, pid, IntOfStr(r.qty).val)
                     d2  == IF loc # <<>> THEN UpdateLocation(d1, pid, loc) ELSE d1
                 IN CliBatchRows(d2, Tail(rows), scan)

\* cmd_receive_csv, the warnings printed: one for every row with an unknown key
\* (no row of the batch adds or removes a part)
CliSkipped(db, rows) ==
    SelectSeq([ i \in DOMAIN rows |->
                  [part_key |-> Strip(rows[i].part_key), reason |-> "unknown part_key"] ],
              LAMBDA w : SelectPartsLower(db, norm_key(w.part_key)) = {})

\* cmd_receive_csv (command line): int() of an unparseable quantity raises
\* while the file is read, before the transaction
cmd_receive_csv(db, csv, scan) ==
    LET res == [NoResult EXCEPT !.op = "cmd_receive_csv", !.csv = csv.name]
    IN IF {"part_key", "qty"} \ csv.fieldnames # {}
       THEN [db |-> db, res |-> [res EXCEPT !.err = "MissingColumns"]]
       ELSE IF \E i \in DOMAIN csv.rows : ~IntOfStr(csv.rows[i].qty).ok
       THEN [db |-> db, res |-> [res EXCEPT !.err = "ValueError"]]
       ELSE [db |-> CliBatchRows(db, csv.rows, scan),
             res |-> [res EXCEPT !.applied = Len(csv.rows),
                                 !.skipped = CliSkipped(db, csv.rows)]]

\* receive_csv (Streamlit), the loop over the rows: the store, the number of
\* rows applied and the rows reported as skipped
RECURSIVE UiBatchRows(_, _, _)
UiBatchRows(acc, rows, scan) ==
    IF rows = <<>> THEN acc
    ELSE LET r       == Head(rows)
             pkey    == Strip(r.part_key)
             qty_raw == Strip(r.qty)
             loc     == Strip(r.location)
             qty     == IntOfFloat(qty_raw)
             found   == SelectPartsLower(acc.db, Lower(pkey))
             next    ==
               IF pkey = <<>> \/ qty_raw = <<>> THEN acc
               ELSE IF ~qty.ok
               THEN [acc EXCEPT !.skipped = Append(@, [part_key |-> pkey,
                                      reason |-> "qty not an integer"])]
               ELSE IF qty.val = 0 THEN acc
               ELSE IF found = {}
               THEN [acc EXCEPT !.skipped = Append(@, [part_key |-> pkey,
                                      reason |-> "unknown part_key"])]
               ELSE LET pid == FetchOne(found, scan).part_id
                        d1  == UpdateOnHand(acc.db, pid, qty.val)
                        d2  == IF loc # <<>> THEN UpdateLocation(d1, pid, loc) ELSE d1
                    IN [acc EXCEPT !.db = d2, !.applied = @ + 1]
         IN UiBatchRows(next, Tail(rows), scan)

receive_csv(db, csv, scan) ==
    LET res == [NoResult EXCEPT !.op = "receive_csv", !.csv = csv.name]
    IN IF csv.fieldnames = {} \/ ~({"part_key", "qty"} \subseteq csv.fieldnames)
       THEN [db |-> db, res |-> [res EXCEPT !.err = "MissingColumns"]]
       ELSE LET out == UiBatchRows([db |-> db, applied |-> 0, skipped |-> <<>>],
                                   csv.rows, scan)
            IN [db |-> out.db,
                res |-> [res EXCEPT !.applied = out.applied, !.skipped = out.skipped]]

(***************************************************************************)
(* Bounds and inputs                                                       *)
(***************************************************************************)
MaxOnHand   == 2     \* calls that would raise an on_hand above it are not tried
MaxDebt     == 1     \* calls that would lower an on_hand below -MaxDebt are not tried
MaxClock    == 2     \* the timestamps now_iso() can return

Times == 1..MaxClock

\* BOM files are <dir>/<stem>.csv; the project is the lower-cased stem
Sea == <<"S","e","a">>
Od  == <<"o","d">>
Stems == { Sea, Od }
DirA == <<"/","a">>
DirB == <<"/","b">>
Dirs == { DirA, DirB }
CsvPath(dir, stem) == dir \o <<"/">> \o stem \o <<".","c","s","v">>

Axial   == <<"R","_","A","x","i","a","l">>
FilmBox == <<"C","_","F","i","l","m","_","B","o","x","_","R","e","c","t">>
Radial  == <<"C","P","_","E","l","e","c","t","r","o","_","R","a","d","i","a","l">>

RowR    == [Reference |-> <<"R","1">>, Value |-> <<"1","0","K">>,
            Footprint |-> Axial, Qty |-> <<"1">>, DNP |-> <<>>]
RowR2   == [Reference |-> <<" ","r","5",","," ","R","6">>,
            Value |-> <<" ","1","0","k"," ">>,
            Footprint |-> Axial, Qty |-> <<"2",".","0">>, DNP |-> <<"0">>]
RowC    == [Reference |-> <<"C","1","2">>, Value |-> <<"1","0","0","N">>,
            Footprint |-> FilmBox, Qty |-> <<"2">>, DNP |-> <<" ","N","o">>]
RowDnp  == [Reference |-> <<"C","3">>, Value |-> <<"1","u">>,
            Footprint |-> Radial, Qty |-> <<"1">>, DNP |-> <<"1">>]
RowBad  == [Reference |-> <<"D","1">>, Value |-> <<"1","N","5","8","1","7">>,
            Footprint |-> Axial, Qty |-> <<"x">>, DNP |-> <<>>]
RowZero == [Reference |-> <<"D","2">>, Value |-> <<"1","N","5","8","1","7">>,
            Footprint |-> Axial, Qty |-> <<"0",".","9">>, DNP |-> <<>>]

BomA     == [name |-> "A", fieldnames |-> RequiredColumns,
             rows |-> <<RowR, RowDnp, RowC>>]
BomB     == [name |-> "B", fieldnames |-> RequiredColumns \cup {"Datasheet"},
             rows |-> <<RowBad, RowR2>>]
BomDup   == [name |-> "Dup", fieldnames |-> RequiredColumns,
             rows |-> <<RowC, RowR, RowR2>>]
BomNoDnp == [name |-> "NoDnp", fieldnames |-> RequiredColumns \ {"DNP"},
             rows |-> <<RowR>>]
BomEmpty == [name |-> "Empty", fieldnames |-> RequiredColumns,
             rows |-> <<RowZero>>]
BomFiles == { BomA, BomB, BomDup, BomNoDnp, BomEmpty }

\* what the operator types as a project, a part_key, a location
ProjSea == <<"s","e","a">>
ProjOd  == <<"o","d">>
ProjZ   == <<"z">>
ProjectArgs == { ProjSea, ProjOd, ProjZ }
KeyR == <<"r","|","1","0","K","|">>
KeyC == <<"C","|","1","0","0","n","|","f","i","l","m">>
KeyD == <<"D","|","1","|">>
LocA == <<"A","1">>
LocPad == <<" ","A","1">>
BuildQtys == {1, 2}

\* the calls tried: (part_key, qty, location), (project, qty, force), (project, qty)
UiReceiveArgs == { <<KeyR, 1, <<>>>>, <<KeyR, 2, LocPad>>, <<KeyC, 1, <<>>>>,
                   <<KeyD, 1, <<>>>>, <<KeyR, 0, <<>>>> }
CliReceiveArgs == UiReceiveArgs \cup { <<KeyC, 0 - 1, <<>>>> }
UiBuildArgs == { <<ProjSea, 1, FALSE>>, <<ProjSea, 1, TRUE>>, <<ProjSea, 2, FALSE>>,
                 <<ProjOd, 1, FALSE>>, <<ProjOd, 1, TRUE>>, <<ProjZ, 1, FALSE>>,
                 <<ProjSea, 0, TRUE>> }
CliBuildArgs == UiBuildArgs \cup { <<ProjOd, 0 - 1, FALSE>> }
ShopArgs == { <<ProjSea, 1>>, <<ProjSea, 2>>, <<ProjOd, 1>>, <<ProjZ, 1>>,
              <<ProjOd, 0>> }

BatchFiles == {
    [name |-> "b1", fieldnames |-> {"part_key", "qty", "location"},
     rows |-> << [part_key |-> KeyR, qty |-> <<"2">>, location |-> <<"A","1">>],
                 [part_key |-> KeyD, qty |-> <<"1">>, location |-> <<>>] >>],
    [name |-> "b2", fieldnames |-> {"part_key", "qty"},
     rows |-> << [part_key |-> KeyC, qty |-> <<"-","1">>, location |-> <<>>] >>],
    [name |-> "b3", fieldnames |-> {"part_key", "qty"},
     rows |-> << [part_key |-> KeyR, qty |-> <<"1",".","0">>, location |-> <<>>],
                 [part_key |-> KeyR, qty |-> <<"0">>, location |-> <<>>] >>],
    [name |-> "b4", fieldnames |-> {"part_key"}, rows |-> <<>>],
    [name |-> "b5", fieldnames |-> {"part_key", "qty"},
     rows |-> << [part_key |-> KeyC, qty |-> <<"x">>, location |-> <<>>],
                 [part_key |-> KeyR, qty |-> <<"1">>, location |-> <<>>] >>] }

(***************************************************************************)
(* State                                                                   *)
(***************************************************************************)
VARIABLES parts, stock, projects, bom_items,   \* the committed tables
          last,                                \* what the last call reported
          conn,                                \* per connection: a build between
                                               \* its reads and its transaction
          norm,                                \* a value text under norm_value
          restock                              \* an operator buying a shopping
                                               \* list and then building

vars == <<parts, stock, projects, bom_items, last, conn, norm, restock>>

\* what the operations on the store leave alone
Aside == <<norm, restock>>

NoNorm    == [pc |-> "idle", raw |-> <<>>, once |-> <<>>, twice |-> <<>>]
NoRestock == [pc |-> "idle", project |-> <<>>, qty |-> 0, rows |-> <<>>,
              listed |-> {}]

Tables == <<parts, stock, projects, bom_items>>

Conns == {1, 2}
Idle  == [pc |-> "idle", deds |-> <<>>, res |-> NoResult]

db == [parts |-> parts, stock |-> stock, projects |-> projects,
       bom_items |-> bom_items]

Commit(d) ==
    /\ parts' = d.parts
    /\ stock' = d.stock
    /\ projects' = d.projects
    /\ bom_items' = d.bom_items

InBounds(d) == \A s \in d.stock : 0 - MaxDebt <= s.on_hand /\ s.on_hand <= MaxOnHand

\* init_db on a new file: the four tables, empty
Init ==
    /\ parts = {}
    /\ stock = {}
    /\ projects = {}
    /\ bom_items = {}
    /\ last = NoResult
    /\ conn = [c \in Conns |-> Idle]
    /\ norm = NoNorm
    /\ restock = NoRestock

(***************************************************************************)
(* Operations, one call at a time                                          *)
(***************************************************************************)
\* cmd_import_many / auto_import_boms_if_needed: one import_bom call
ImportBom(stem, dir, csv, now) ==
    LET project == Lower(stem)
        out     == import_bom(db, project, CsvPath(dir, stem), csv, now)
    IN /\ Commit(out.db)
       /\ last' = [NoResult EXCEPT !.op = "import_bom", !.err = out.err,
                     !.project = project, !.csv = csv.name,
                     !.again = /\ last.op = "import_bom" /\ last.err = ""
                               /\ last.project = project /\ last.csv = csv.name]
       /\ UNCHANGED <<conn, Aside>>

Call(out) ==
    /\ InBounds(out.db)
    /\ Commit(out.db)
    /\ last' = out.res
    /\ UNCHANGED <<conn, Aside>>

\* the scan orders that can answer a lookup differently
Scans(key) == IF Cardinality(SelectPartsLower(db, key)) > 1 THEN ScanOrders ELSE {"rowid"}

CmdReceive    == \E a \in CliReceiveArgs : \E sc \in Scans(norm_key(a[1])) :
                    Call(cmd_receive(db, a[1], a[2], a[3], sc))
ReceiveOne    == \E a \in UiReceiveArgs : \E sc \in Scans(norm_key(a[1])) :
                    Call(receive_one(db, a[1], a[2], a[3], sc))
CmdReceiveCsv == \E f \in BatchFiles : Call(cmd_receive_csv(db, f, "rowid"))
ReceiveCsv    == \E f \in BatchFiles : Call(receive_csv(db, f, "rowid"))
CmdBuild      == \E a \in CliBuildArgs : Call(cmd_build(db, a[1], a[2], a[3]))
BuildProject  == \E a \in UiBuildArgs : Call(build_project(db, a[1], a[2], a[3]))
CmdShop       == \E a \in ShopArgs : Call(cmd_shop(db, a[1], a[2]))
ShopForBuild  == \E a \in ShopArgs : Call(shop_for_build(db, a[1], a[2]))

\* the BOM folder of the ledger runs: Sea.csv holds BOM A, od.csv holds BOM B
\* or, later, a BOM without a surviving row
Import        == \E i \in { <<Sea, BomA>>, <<Od, BomB>>, <<Od, BomEmpty>> } :
                    ImportBom(i[1], DirA, i[2], 1)

Next ==
    \/ Import
    \/ CmdReceive
    \/ ReceiveOne
    \/ CmdReceiveCsv
    \/ ReceiveCsv
    \/ CmdBuild
    \/ BuildProject
    \/ CmdShop
    \/ ShopForBuild

Spec == Init /\ [][Next]_vars

(***************************************************************************)
(* Import runs: every BOM file, re-imports from another folder and at      *)
(* another time, and receipts in between                                   *)
(***************************************************************************)
ImportAny ==
    \/ \E d \in Dirs, f \in BomFiles, t \in Times : ImportBom(Sea, d, f, t)
    \/ \E f \in { BomB, BomDup } : ImportBom(Od, DirA, f, 1)

ReceiveSome ==
    \E a \in { <<KeyR, 2, LocA>>, <<KeyC, 1, <<>>>> } :
        Call(receive_one(db, a[1], a[2], a[3], "rowid"))

NextImport == ImportAny \/ ReceiveSome

SpecImport == Init /\ [][NextImport]_vars

(***************************************************************************)
(* Concurrent builds: two connections, each build in two steps, the reads  *)
(* (autocommit SELECTs) and later the write transaction                    *)
(***************************************************************************)
ConcBuildArgs == { <<ProjSea, 1>>, <<ProjOd, 1>> }

\* the checks and the SELECTs of a build without force
BuildRead(c) ==
    /\ conn[c].pc = "idle"
    /\ \E a \in ConcBuildArgs, ui \in BOOLEAN :
         LET plan == IF ui THEN BuildPlan(db, a[1], a[2], FALSE)
                           ELSE CmdBuildPlan(db, a[1], a[2], FALSE)
         IN IF plan.stop
            THEN last' = plan.res /\ UNCHANGED <<Tables, conn, Aside>>
            ELSE /\ conn' = [conn EXCEPT ![c] =
                               [pc |-> "write", deds |-> plan.deds, res |-> plan.res]]
                 /\ UNCHANGED <<Tables, last, Aside>>

\* "with con:" of the build: the pending deductions, applied to the store as
\* it is now
BuildWrite(c) ==
    /\ conn[c].pc = "write"
    /\ InBounds(ApplyDeductions(db, conn[c].deds))
    /\ Commit(ApplyDeductions(db, conn[c].deds))
    /\ last' = conn[c].res
    /\ conn' = [conn EXCEPT ![c] = Idle]
    /\ UNCHANGED Aside

ReceiveConc ==
    \E a \in { <<KeyR, 1, <<>>>>, <<KeyC, 2, <<>>>> } :
        Call(receive_one(db, a[1], a[2], a[3], "rowid"))

NextConc ==
    \/ Import
    \/ ReceiveConc
    \/ \E c \in Conns : BuildRead(c)
    \/ \E c \in Conns : BuildWrite(c)

SpecConc == Init /\ [][NextConc]_vars

(***************************************************************************)
(* Build: the safety guarantee and the forced build                        *)
(***************************************************************************)
\* the BOM items of the project called name, each with the stock row of its part
BomStock(name) ==
    { <<b, s>> \in bom_items \X stock :
        /\ \E pr \in projects : pr.name = name /\ pr.project_id = b.project_id
        /\ s.part_id = b.part_id }

\* at least one BOM part of the project has on_hand < qty_per * q
HasShortPart(name, q) == \E bs \in BomStock(name) : bs[2].on_hand < bs[1].qty_per * q

OnHandOf(st, pid) == (CHOOSE s \in st : s.part_id = pid).on_hand

IsBuild(r) == r.op \in {"build_project", "cmd_build"}

\* C1: a build without force of a project with a short part, by either front
\* end, reports deducted = FALSE with a non-empty shortage list and changes no
\* row of any table
C1_BlockedBuildChangesNothing ==
    [][ ( /\ IsBuild(last') /\ ~last'.force /\ last'.qty > 0
          /\ HasShortPart(last'.project, last'.qty) )
        => /\ last'.deducted = FALSE
           /\ last'.shortages # <<>>
           /\ UNCHANGED Tables ]_vars

\* a blocked build of a project one of whose parts had enough stock
C1_Witness ==
    /\ IsBuild(last) /\ ~last.force /\ last.qty > 0
    /\ last.deducted = FALSE
    /\ last.shortages # <<>>
    /\ \E bs \in BomStock(last.project) :
          bs[2].on_hand > 0 /\ bs[2].on_hand >= bs[1].qty_per * last.qty

\* the need of part pid in one build of q units of the project
NeedOf(name, pid, q) ==
    IF \E bs \in BomStock(name) : bs[1].part_id = pid
    THEN (CHOOSE bs \in BomStock(name) : bs[1].part_id = pid)[1].qty_per * q
    ELSE 0

KeyOf(pid) == (CHOOSE p \in parts : p.part_id = pid).part_key

\* C2: a forced build of a project with a short part reports deducted = TRUE,
\* lowers every BOM part by its full need and lists exactly the BOM parts that
\* end negative, each with short_by = need - on_hand before the build
C2_ForcedBuildDeductsFully ==
    [][ ( /\ IsBuild(last') /\ last'.force /\ last'.qty > 0
          /\ HasShortPart(last'.project, last'.qty) )
        => LET p == last'.project
               q == last'.qty
           IN /\ last'.deducted = TRUE
              /\ { s.part_id : s \in stock' } = { s.part_id : s \in stock }
              /\ \A s \in stock :
                    OnHandOf(stock', s.part_id) = s.on_hand - NeedOf(p, s.part_id, q)
              /\ { r.part_key : r \in Range(last'.shortages) }
                   = { KeyOf(bs[1].part_id) : bs \in
                         { x \in BomStock(p) : OnHandOf(stock', x[1].part_id) < 0 } }
              /\ Len(last'.shortages)
                   = Cardinality({ r.part_key : r \in Range(last'.shortages) })
              /\ \A r \in Range(last'.shortages) :
                    \E bs \in BomStock(p) :
                       /\ KeyOf(bs[1].part_id) = r.part_key
                       /\ r.short_by = bs[1].qty_per * q - bs[2].on_hand ]_vars

\* a forced build that left one part negative and another one not
C2_Witness ==
    /\ IsBuild(last) /\ last.force /\ last.qty > 0
    /\ last.deducted = TRUE
    /\ last.shortages # <<>>
    /\ \E bs \in BomStock(last.project) : bs[2].on_hand < 0
    /\ \E bs \in BomStock(last.project) : bs[2].on_hand >= 0

NonNegative(st) == \A s \in st : s.on_hand >= 0

ForcedBuildStep == IsBuild(last') /\ last'.force

\* C3: no call other than a build with force makes an on_hand negative
C3_NegativeOnlyByForce ==
    [][ (NonNegative(stock) /\ ~ForcedBuildStep) => NonNegative(stock') ]_vars

\* C4: with builds without force only, also when two of them overlap, no
\* on_hand becomes negative
C4_ConcurrentBuildsNeverOverdraw == NonNegative(stock)

(***************************************************************************)
(* Part identity and import                                                *)
(***************************************************************************)
FileOf(name) == CHOOSE f \in BomFiles : f.name = name

\* the part_key import_bom derives for a surviving row
RowKey(r) ==
    make_part_key(ref_prefix(r.ref), r.val,
                  IF ref_prefix(r.ref) = <<"C">>
                  THEN cap_subtype_from_footprint(r.fp) ELSE <<>>)

Survivors(name) == Range(read_kicad_bom(FileOf(name)).rows)

HasColumns(name) == RequiredColumns \subseteq FileOf(name).fieldnames

\* no two surviving rows of the file have the same part_key
DistinctKeys(name) ==
    \A i, j \in DOMAIN read_kicad_bom(FileOf(name)).rows :
        RowKey(read_kicad_bom(FileOf(name)).rows[i])
          = RowKey(read_kicad_bom(FileOf(name)).rows[j]) => i = j

IdsOfKey(ps, k) == { p.part_id : p \in { x \in ps : x.part_key = k } }

ProjectIds(prs, name) == { p.project_id : p \in { x \in prs : x.name = name } }

IsImport(r) == r.op = "import_bom"

\* C5: the parts table never holds two rows with the same part_key, a part
\* keeps its part_id and part_key, and an import whose rows name parts that
\* exist already succeeds and points its BOM items at those parts
C5_OnePartPerKey ==
    [][ /\ \A p, q \in parts' : p.part_key = q.part_key => p = q
        /\ \A p \in parts : p.part_id \in IdsOfKey(parts', p.part_key)
        /\ ( IsImport(last') /\ HasColumns(last'.csv) /\ DistinctKeys(last'.csv) )
           => /\ last'.err = ""
              /\ \A r \in Survivors(last'.csv) :
                   /\ Cardinality(IdsOfKey(parts', RowKey(r))) = 1
                   /\ IdsOfKey(parts, RowKey(r)) \subseteq IdsOfKey(parts', RowKey(r))
                   /\ \E b \in bom_items' :
                        /\ b.project_id \in ProjectIds(projects', last'.project)
                        /\ b.part_id \in IdsOfKey(parts', RowKey(r)) ]_vars

\* an import that succeeded on rows whose parts all existed before it
C5_Witness ==
    /\ IsImport(last) /\ last.err = "" /\ last.again
    /\ Survivors(last.csv) # {}

\* C6: parts and stock rows are one to one, and a stock row is created with
\* on_hand = 0
C6_PartHasStock ==
    [][ /\ { p.part_id : p \in parts' } = { s.part_id : s \in stock' }
        /\ Cardinality(stock') = Cardinality({ s.part_id : s \in stock' })
        /\ Cardinality(parts') = Cardinality({ p.part_id : p \in parts' })
        /\ \A s \in stock' :
             s.part_id \notin { x.part_id : x \in stock } => s.on_hand = 0 ]_vars

\* an import has just created parts, next to a part that has stock
C6_Witness ==
    /\ IsImport(last) /\ last.err = ""
    /\ \E s \in stock : s.on_hand = 0
    /\ \E s \in stock : s.on_hand > 0

BomPairs(items, prs, name) ==
    { <<b.part_id, b.qty_per>> : b \in
        { x \in items : x.project_id \in ProjectIds(prs, name) } }

\* C7: after a successful import the BOM items of the project are exactly the
\* (part, qty) pairs of the surviving rows of that import, the items of the
\* other projects are as before; no other call changes a BOM item
C7_BomIsLastImport ==
    [][ IF IsImport(last') /\ last'.err = ""
        THEN /\ BomPairs(bom_items', projects', last'.project)
                  = { <<CHOOSE i \in IdsOfKey(parts', RowKey(r)) : TRUE, r.qty>>
                        : r \in Survivors(last'.csv) }
             /\ \A r \in Survivors(last'.csv) : IdsOfKey(parts', RowKey(r)) # {}
             /\ { b \in bom_items' : b.project_id \notin ProjectIds(projects', last'.project) }
                  = { b \in bom_items : b.project_id \notin ProjectIds(projects', last'.project) }
        ELSE bom_items' = bom_items ]_vars

\* project sea, imported with the two parts of BOM A before, now holds the
\* one item of BOM B
C7_Witness ==
    /\ IsImport(last) /\ last.err = "" /\ last.csv = "B" /\ last.project = ProjSea
    /\ \E p \in parts : p.prefix = <<"C">>

NoMeta(prs) == { [project_id |-> p.project_id, name |-> p.name] : p \in prs }

\* C8: a second import of the same rows for the same project, right after the
\* first, succeeds and changes nothing but source_csv and imported_at
C8_ImportIdempotent ==
    [][ ( IsImport(last') /\ last'.again )
        => /\ last'.err = ""
           /\ parts' = parts
           /\ stock' = stock
           /\ bom_items' = bom_items
           /\ NoMeta(projects') = NoMeta(projects)
           /\ Cardinality(projects') = Cardinality(projects) ]_vars

\* the second import came from the other folder at another time
C8_Witness ==
    /\ IsImport(last) /\ last.again /\ last.err = ""
    /\ bom_items # {}
    /\ \E p \in projects : p.source_csv = CsvPath(DirB, Sea) /\ p.imported_at = 2

\* C9: an import of a file that has the required columns completes, and every
\* surviving row has a BOM item of the project for its part
C9_ImportCompletes ==
    [][ ( IsImport(last') /\ HasColumns(last'.csv) )
        => /\ last'.err = ""
           /\ \A r \in Survivors(last'.csv) :
                \E b \in bom_items' :
                   /\ b.project_id \in ProjectIds(projects', last'.project)
                   /\ b.part_id \in IdsOfKey(parts', RowKey(r)) ]_vars

\* C10: an import that fails leaves every table as it was
C10_FailedImportChangesNothing ==
    [][ ( IsImport(last') /\ last'.err # "" ) => UNCHANGED Tables ]_vars

\* project od keeps its BOM after an import of od that failed on a statement,
\* and the capacitor the failed import had inserted is not in the store
C10_Witness ==
    /\ IsImport(last) /\ last.err = "IntegrityError" /\ last.project = ProjOd
    /\ BomPairs(bom_items, projects, ProjOd) # {}
    /\ \A p \in parts : p.prefix # <<"C">>


(***************************************************************************)
(* Receive and build: rejected arguments                                   *)
(***************************************************************************)
IsReceive(r) == r.op \in {"cmd_receive", "receive_one"}

\* C11: a receive with qty <= 0 is rejected, whatever the part_key and the
\* location, and leaves every on_hand and every location (all four tables)
\* unchanged
C11_NonPositiveReceiveRejected ==
    [][ ( IsReceive(last') /\ last'.qty <= 0 )
        => /\ last'.err # ""
           /\ UNCHANGED Tables ]_vars

\* C12: a build with buildQty <= 0 fails, whatever the project and the force
\* flag, and leaves the on_hand of every part unchanged
C12_NonPositiveBuildFails ==
    [][ ( IsBuild(last') /\ last'.qty <= 0 )
        => /\ last'.err # ""
           /\ stock' = stock ]_vars

(***************************************************************************)
(* Batch receive                                                           *)
(***************************************************************************)
IsBatch(r) == r.op \in {"cmd_receive_csv", "receive_csv"}

\* the file a batch receive was called with
BatchOf(name) == CHOOSE f \in BatchFiles : f.name = name

\* a row whose quantity reads as a number that is zero or negative
NonPositiveRow(r) ==
    IntOfFloat(Strip(r.qty)).ok /\ IntOfFloat(Strip(r.qty)).val <= 0

\* C13: a batch receive skips the rows whose quantity is zero or negative: a
\* file that holds only such rows changes no on_hand and no location, and no
\* batch receive lowers the on_hand of any part
C13_BatchSkipsNonPositiveRows ==
    [][ IsBatch(last')
        => /\ \A s \in stock : OnHandOf(stock', s.part_id) >= s.on_hand
           /\ (\A i \in DOMAIN BatchOf(last'.csv).rows :
                   NonPositiveRow(BatchOf(last'.csv).rows[i]))
              => (stock' = stock /\ parts' = parts) ]_vars

\* C14: a batch receive accounts for every input row: a row with an unparseable
\* quantity or an unknown part_key is skipped and reported while the other rows
\* are applied, and applied rows + reported skipped rows = input rows
C14_BatchAccountsForEveryRow ==
    [][ ( /\ IsBatch(last')
          /\ {"part_key", "qty"} \subseteq BatchOf(last'.csv).fieldnames )
        => /\ last'.err = ""
           /\ last'.applied + Len(last'.skipped)
                = Len(BatchOf(last'.csv).rows) ]_vars

(***************************************************************************)
(* Receive: effect and frame                                               *)
(***************************************************************************)
\* the parts whose part_key equals key when both are compared without case
MatchesOf(ps, key) == { p \in ps : Lower(p.part_key) = Lower(Strip(key)) }

PartOf(ps, pid) == CHOOSE p \in ps : p.part_id = pid

\* C15: a successful receive raises the on_hand of one part matched without
\* case by exactly qty, overwrites that part's location only when a location
\* is supplied (with the location supplied, blanks around it aside), and
\* leaves every other stock row, every other part, every project and every
\* BOM item unchanged
C15_ReceiveEffectAndFrame ==
    [][ ( IsReceive(last') /\ last'.err = "" )
        => \E p \in MatchesOf(parts, last'.part_key) :
             LET old == CHOOSE s \in stock : s.part_id = p.part_id
                 new == [old EXCEPT !.on_hand = @ + last'.qty]
                 p2  == PartOf(parts', p.part_id)
             IN /\ stock' = (stock \ {old}) \cup {new}
                /\ parts' = (parts \ {p}) \cup {p2}
                /\ [p2 EXCEPT !.location = p.location] = p
                /\ last'.location = <<>> => p2.location = p.location
                /\ p2.location # p.location
                     => Strip(p2.location) = Strip(last'.location)
                /\ Strip(last'.location) # <<>>
                     => Strip(p2.location) = Strip(last'.location)
                /\ UNCHANGED <<projects, bom_items>> ]_vars

\* a receive of two with a location has been applied to a part of a store
\* that holds another part
C15_Witness ==
    /\ last.op = "receive_one" /\ last.err = "" /\ last.qty = 2
    /\ last.location = LocPad
    /\ \E p \in MatchesOf(parts, last.part_key) :
          /\ p.location = LocA
          /\ OnHandOf(stock, p.part_id) = 2
          /\ \E q \in parts : q.part_id # p.part_id /\ q.location # LocA

(***************************************************************************)
(* Not found                                                               *)
(***************************************************************************)
IsShop(r) == r.op \in {"shop_for_build", "cmd_shop"}

\* no project is called name, compared without case
NoProject(name) == \A p \in projects : Lower(p.name) # Lower(Strip(name))

\* C16: a receive whose part_key matches no part, and a build or a shopping
\* list whose project does not exist, report a failure and change nothing:
\* parts (locations), stock (on_hand), projects and bom_items are as before
C16_NotFoundChangesNothing ==
    [][ ( \/ IsReceive(last') /\ MatchesOf(parts, last'.part_key) = {}
          \/ (IsBuild(last') \/ IsShop(last')) /\ NoProject(last'.project) )
        => /\ last'.err # ""
           /\ UNCHANGED Tables ]_vars

\* a receive of an unknown part_key has failed on a store that holds parts
C16_Witness ==
    /\ IsReceive(last) /\ last.qty > 0 /\ last.err # ""
    /\ MatchesOf(parts, last.part_key) = {}
    /\ parts # {}

\* a build of an unknown project has failed on a store that holds stock
C16_WitnessProject ==
    /\ IsBuild(last) /\ last.qty > 0 /\ last.err # ""
    /\ NoProject(last.project)
    /\ \E s \in stock : s.on_hand > 0

(***************************************************************************)
(* Build without a shortage                                                *)
(***************************************************************************)
\* the effect of a build that goes through: every BOM part lowered by its
\* need, nothing else changed
FullyDeducted(p, q) ==
    /\ stock' = { [s EXCEPT !.on_hand = @ - NeedOf(p, s.part_id, q)] : s \in stock }
    /\ UNCHANGED <<parts, projects, bom_items>>

\* C17: a build without force and with buildQty > 0 of a project none of
\* whose BOM parts is short returns deducted = TRUE with an empty shortage
\* list, lowers each BOM part by qty_per * buildQty and leaves every other
\* on_hand and all parts, projects and BOM items unchanged
C17_UnforcedBuildDeducts ==
    [][ ( /\ IsBuild(last') /\ ~last'.force /\ last'.qty > 0
          /\ ~NoProject(last'.project)
          /\ ~HasShortPart(last'.project, last'.qty) )
        => /\ last'.err = ""
           /\ last'.deducted = TRUE
           /\ last'.shortages = <<>>
           /\ FullyDeducted(last'.project, last'.qty) ]_vars

\* the same for the projects that have at least one BOM item
C17_NonEmptyBomBuildDeducts ==
    [][ ( /\ IsBuild(last') /\ ~last'.force /\ last'.qty > 0
          /\ BomStock(last'.project) # {}
          /\ ~HasShortPart(last'.project, last'.qty) )
        => /\ last'.err = ""
           /\ last'.deducted = TRUE
           /\ last'.shortages = <<>>
           /\ FullyDeducted(last'.project, last'.qty) ]_vars

(***************************************************************************)
(* Shopping list                                                           *)
(***************************************************************************)
\* C18: a shopping list never changes the store, whatever the project and the
\* quantity and whether the call succeeds or fails: every on_hand and every
\* other stored value is as before
C18_ShopChangesNothing ==
    [][ IsShop(last') => UNCHANGED Tables ]_vars

\* a shopping list with rows has been returned on a store that holds stock
C18_Witness ==
    /\ IsShop(last) /\ last.err = "" /\ last.rows # <<>>
    /\ \E s \in stock : s.on_hand > 0
    /\ \E s \in stock : s.on_hand < 0

\* the BOM parts of the project whose need for q units exceeds their on_hand
ShortItems(name, q) == { bs \in BomStock(name) : bs[1].qty_per * q > bs[2].on_hand }

\* C19: a shopping list that succeeds has one row for exactly the BOM parts of
\* the project with qty_per * buildQty > on_hand, each with
\* to_order = qty_per * buildQty - on_hand, and no row for a part whose on_hand
\* covers its need
C19_ShopListsExactlyShortParts ==
    [][ ( IsShop(last') /\ last'.err = "" )
        => LET short == ShortItems(last'.project, last'.qty)
           IN /\ Len(last'.rows) = Cardinality(short)
              /\ { <<r.part_key, r.to_order>> : r \in Range(last'.rows) }
                   = { <<KeyOf(bs[1].part_id),
                         bs[1].qty_per * last'.qty - bs[2].on_hand>> : bs \in short } ]_vars

\* a shopping list of one row for a project of two BOM parts: the part listed
\* has stock but not enough, the other is covered
C19_Witness ==
    /\ IsShop(last) /\ last.err = "" /\ Len(last.rows) = 1
    /\ Cardinality(BomStock(last.project)) = 2
    /\ last.rows[1].on_hand > 0 /\ last.rows[1].to_order > 0

(***************************************************************************)
(* Part keys that differ only in case: BOMs that spell a free-text value   *)
(* in two ways, and receipts by key with either scan order                 *)
(***************************************************************************)
Dip    == <<"D","I","P","-","8">>
RowU   == [Reference |-> <<"U","1">>, Value |-> <<"T","L","0","7","2">>,
           Footprint |-> Dip, Qty |-> <<"1">>, DNP |-> <<>>]
RowU2  == [Reference |-> <<"U","2">>, Value |-> <<"t","l","0","7","2">>,
           Footprint |-> Dip, Qty |-> <<"1">>, DNP |-> <<>>]
BomUpper == [name |-> "Upper", fieldnames |-> RequiredColumns, rows |-> <<RowU, RowR>>]
BomLower == [name |-> "Lower", fieldnames |-> RequiredColumns, rows |-> <<RowU2>>]
KeyU   == <<"u","|","t","l","0","7","2","|">>

ImportKeys ==
    \E i \in { <<Sea, BomUpper>>, <<Od, BomLower>>, <<Od, BomA>> } :
        ImportBom(i[1], DirA, i[2], 1)

ReceiveKeys ==
    \E a \in { <<KeyU, 1, <<>>>>, <<KeyU, 1, LocA>>, <<KeyR, 1, <<>>>> } :
        \E sc \in Scans(norm_key(a[1])) :
            \/ Call(receive_one(db, a[1], a[2], a[3], sc))
            \/ Call(cmd_receive(db, a[1], a[2], a[3], sc))

NextKeys == ImportKeys \/ ReceiveKeys

SpecKeys == Init /\ [][NextKeys]_vars

\* C20: no two parts have part_keys that are equal when compared without
\* case, so the lookup of receive, LOWER(part_key) = key, matches at most one
\* part for any key
C20_KeysDistinctIgnoringCase ==
    \A p, q \in parts :
        SqlLower(p.part_key) = SqlLower(q.part_key) => p.part_id = q.part_id

(***************************************************************************)
(* Projects across imports                                                 *)
(***************************************************************************)
\* C21: there is one project row per imported name; an import of a name that
\* exists keeps the project's project_id and name, so it changes only
\* source_csv and imported_at, and it touches no project of another name
C21_OneProjectPerName ==
    [][ /\ \A p, q \in projects' : p.name = q.name => p = q
        /\ \A p \in projects :
              \E q \in projects' : q.project_id = p.project_id /\ q.name = p.name
        /\ ( IsImport(last') /\ last'.err = "" )
             => /\ \E q \in projects' : q.name = last'.project
                /\ \A p \in projects : p.name # last'.project => p \in projects'
                /\ \A q \in projects' : q.name # last'.project => q \in projects ]_vars

\* project sea, created before project od, has been imported again, from the
\* other folder at another time
C21_Witness ==
    /\ IsImport(last) /\ last.err = "" /\ last.project = ProjSea
    /\ \E p, q \in projects :
          /\ p.name = ProjSea /\ p.project_id = 1
          /\ p.imported_at = 2 /\ p.source_csv = CsvPath(DirB, Sea)
          /\ q.name = ProjOd /\ q.project_id = 2

(***************************************************************************)
(* norm_value on its own: every text over a small alphabet up to MaxLen     *)
(* characters and the values named in the specification, normalised once   *)
(* and then once more                                                      *)
(***************************************************************************)
MaxLen == 3

ValueAlphabet == {"1", "K", "k", " ", "o", "O", "h", "m", "Ω", "x"}

Val10K    == <<"1","0","K">>
Val10kPad == <<" ","1","0","k"," ">>
Val10k    == <<"1","0","k">>
Val100Ohm == <<"1","0","0"," ","o","h","m">>

ValueInputs ==
    UNION { [1..n -> ValueAlphabet] : n \in 0..MaxLen }
      \cup { Val10K, Val10kPad, Val10k, Val100Ohm }

InitNorm ==
    /\ parts = {} /\ stock = {} /\ projects = {} /\ bom_items = {}
    /\ last = NoResult
    /\ conn = [c \in Conns |-> Idle]
    /\ restock = NoRestock
    /\ norm \in { [NoNorm EXCEPT !.pc = "input", !.raw = s] : s \in ValueInputs }

\* norm_value(s)
NormValue ==
    /\ norm.pc = "input"
    /\ norm' = [norm EXCEPT !.pc = "once", !.once = norm_value(norm.raw)]
    /\ UNCHANGED <<Tables, last, conn, restock>>

\* norm_value(norm_value(s))
NormAgain ==
    /\ norm.pc = "once"
    /\ norm' = [norm EXCEPT !.pc = "twice", !.twice = norm_value(norm.once)]
    /\ UNCHANGED <<Tables, last, conn, restock>>

NextNorm == NormValue \/ NormAgain

SpecNorm == InitNorm /\ [][NextNorm]_vars

\* C22: norm_value maps "10K", " 10k " and "10k" to "10k", and "100 ohm" to
\* "100 Ω"
C22_NormValueExamples ==
    norm.pc \in {"once", "twice"}
      => /\ norm.raw \in { Val10K, Val10kPad, Val10k } => norm.once = Val10k
         /\ norm.raw = Val100Ohm => norm.once = <<"1","0","0"," ","Ω">>

\* the part of C22 about "10K", " 10k " and "10k"
C22_TenK ==
    norm.pc \in {"once", "twice"}
      => ( norm.raw \in { Val10K, Val10kPad, Val10k } => norm.once = Val10k )

\* C26: norm_value is idempotent: norm_value(norm_value(s)) = norm_value(s)
\* for every text s, texts over the simple-value alphabet with "ohm" in any
\* case or the sign Ω included
C26_NormValueIdempotent ==
    norm.pc = "twice" => norm.twice = norm.once

(***************************************************************************)
(* The two front ends                                                      *)
(***************************************************************************)
\* the call went through: no error, and for a build the parts were deducted
\* (a blocked build is a refusal in both front ends, an exit status there and
\* deducted = FALSE here)
Accepted(out) == out.res.err = "" /\ (IsBuild(out.res) => out.res.deducted)

\* two outcomes of a call agree: both accepted or both rejected, and the same
\* on_hand values left behind
SameOutcome(a, b) ==
    /\ Accepted(a) = Accepted(b)
    /\ a.db.stock = b.db.stock

\* C23: the command-line and the Streamlit implementations of receive and
\* build are interchangeable: from the same store and with the same arguments
\* both accept or reject the call alike and leave the same on_hand values
C23_FrontEndsAgree ==
    [][ /\ IsReceive(last')
             => SameOutcome(
                  cmd_receive(db, last'.part_key, last'.qty, last'.location, "rowid"),
                  receive_one(db, last'.part_key, last'.qty, last'.location, "rowid"))
        /\ IsBuild(last')
             => SameOutcome(
                  cmd_build(db, last'.project, last'.qty, last'.force),
                  build_project(db, last'.project, last'.qty, last'.force)) ]_vars

\* the same for the calls with a positive quantity on projects that have BOM
\* items
C23_AgreeOnPositiveQty ==
    [][ /\ ( IsReceive(last') /\ last'.qty > 0 )
             => SameOutcome(
                  cmd_receive(db, last'.part_key, last'.qty, last'.location, "rowid"),
                  receive_one(db, last'.part_key, last'.qty, last'.location, "rowid"))
        /\ ( IsBuild(last') /\ last'.qty > 0
              /\ (NoProject(last'.project) \/ BomStock(last'.project) # {}) )
             => SameOutcome(
                  cmd_build(db, last'.project, last'.qty, last'.force),
                  build_project(db, last'.project, last'.qty, last'.force)) ]_vars

(***************************************************************************)
(* Restocking: an operator asks for the shopping list of a build, receives *)
(* every row of it, then builds.  Before that the store is filled by       *)
(* imports, receipts and a forced build.                                   *)
(***************************************************************************)
RowOhm == [Reference |-> <<"R","2">>, Value |-> <<"1","0","0","o","h","m">>,
           Footprint |-> Axial, Qty |-> <<"1">>, DNP |-> <<>>]
BomOhm == [name |-> "Ohm", fieldnames |-> RequiredColumns, rows |-> <<RowOhm, RowR2>>]

RestockArgs == { <<ProjSea, 1>>, <<ProjSea, 2>>, <<ProjOd, 1>> }

ImportRestock ==
    /\ restock.pc = "idle"
    /\ \E i \in { <<Sea, BomA>>, <<Od, BomOhm>> } : ImportBom(i[1], DirA, i[2], 1)

ReceiveRestock ==
    /\ restock.pc = "idle"
    /\ \E a \in { <<KeyR, 1, <<>>>>, <<KeyC, 1, <<>>>> } :
          Call(receive_one(db, a[1], a[2], a[3], "rowid"))

ForcedRestock ==
    /\ restock.pc = "idle"
    /\ Call(build_project(db, ProjSea, 1, TRUE))

\* shop_for_build: the list the operator will buy
ShopRestock ==
    /\ restock.pc = "idle"
    /\ \E a \in RestockArgs :
          LET out == shop_for_build(db, a[1], a[2])
          IN /\ out.res.err = ""
             /\ last' = out.res
             /\ restock' = [pc |-> "receive", project |-> a[1], qty |-> a[2],
                            rows |-> out.res.rows,
                            listed |-> { r.part_key : r \in Range(out.res.rows) }]
    /\ UNCHANGED <<Tables, conn, norm>>

\* receive_one for the next row of the list: its part_key, its to_order
RowRestock ==
    /\ restock.pc = "receive" /\ restock.rows # <<>>
    /\ LET r == Head(restock.rows)
       IN \E sc \in Scans(norm_key(r.part_key)) :
            LET out == receive_one(db, r.part_key, r.to_order, <<>>, sc)
            IN Commit(out.db) /\ last' = out.res
    /\ restock' = [restock EXCEPT !.rows = Tail(@)]
    /\ UNCHANGED <<conn, norm>>

\* build_project without force, once every row has been received
BuildRestock ==
    /\ restock.pc = "receive" /\ restock.rows = <<>>
    /\ LET out == build_project(db, restock.project, restock.qty, FALSE)
       IN Commit(out.db) /\ last' = out.res
    /\ restock' = [restock EXCEPT !.pc = "built"]
    /\ UNCHANGED <<conn, norm>>

NextRestock ==
    \/ ImportRestock
    \/ ReceiveRestock
    \/ ForcedRestock
    \/ ShopRestock
    \/ RowRestock
    \/ BuildRestock

SpecRestock == Init /\ [][NextRestock]_vars

\* the build after the receipts went through and left nothing of the parts
\* that were on the list
Restocked ==
    /\ last.err = "" /\ last.deducted /\ last.shortages = <<>>
    /\ \A p \in parts : p.part_key \in restock.listed
                            => OnHandOf(stock, p.part_id) = 0

\* C24: for any project and buildQty > 0, after a receipt of exactly to_order
\* for each row of the shopping list, the build without force returns
\* deducted = TRUE with no shortages and every part that was on the list
\* ends with on_hand = 0
C24_RestockThenBuild ==
    restock.pc = "built" => Restocked

\* the same for the project whose part_keys hold no Ω
C24_RestockThenBuildSea ==
    (restock.pc = "built" /\ restock.project = ProjSea) => Restocked

\* C25: an import changes no part row that exists (its location included) and
\* no stock row that exists, removes neither, and every stock row it adds has
\* on_hand = 0; so a part left on no project's BOM keeps its on_hand
C25_ImportKeepsLedger ==
    [][ IsImport(last')
        => /\ parts \subseteq parts'
           /\ stock \subseteq stock'
           /\ \A s \in stock' \ stock : s.on_hand = 0 /\ s.min_stock = 0
           /\ \A s \in stock' \ stock :
                 s.part_id \notin { p.part_id : p \in parts } ]_vars

\* a re-import has left a part that was received at a location on no BOM
C25_Witness ==
    /\ IsImport(last) /\ last.err = ""
    /\ \E p \in parts :
         /\ p.location = LocA
         /\ \E s \in stock : s.part_id = p.part_id /\ s.on_hand = 2
         /\ \A b \in bom_items : b.part_id # p.part_id
    /\ \E s \in stock : s.on_hand = 0

====
